---- MODULE Spec2Model ----
(***************************************************************************)
(* A model of pole, a terminal browser for secrets kept in a Vault KV      *)
(* store.  Modelled here:                                                  *)
(*   - internal/vault: Client.GetKeys / Client.recurse / Client.listDir,   *)
(*     the concurrent walk of a mount that collects every secret path;     *)
(*   - main: matchesPrompt, the fuzzy matcher behind the prompt;           *)
(*   - main: the ranking of newKeysView (filter, slices.SortFunc);         *)
(*   - main: the prompt under edits (KeyRune, KeyBackspace) and the keys    *)
(*     filtered under it;                                                  *)
(*   - main and internal/vault: the interactive session, its event loop,   *)
(*     Client.GetSecret and the two process-wide caches;                   *)
(*   - internal/vault: Client.GetSecret on its own, over the answers the   *)
(*     store may give to a Get.                                            *)
(* Strings are sequences of one-character strings, so that concatenation,  *)
(* strings.HasSuffix and strings.ToLower are computed, not assumed.        *)
(***************************************************************************)
EXTENDS Integers, Sequences, FiniteSets, TLC

VARIABLES
    secrets,     \* the store: the set of secret (leaf) paths written to the mount
    status,      \* the store: directory -> status of the response to its list request
    cachedKeys,  \* var cachedKeys: mount -> keys, the process-wide map
    cpc,         \* where the caller of GetKeys is: "setup", "range", "returned"
    task,        \* the goroutines running recurse: entry.Name -> [pc, isDir, kids]
    closed,      \* whether close(recv) has run
    keys,        \* GetKeys' local slice keys
    result,      \* what the last GetKeys call returned
    prev,        \* the set of keys the GetKeys call before it returned
    runs,        \* the last GetKeys call: "none", "first" (walk), "again" (a later
                 \* walk), "cached" (answered from cachedKeys)
    errLogged,   \* directories for which recurse logged "Failed to list directory"
    mPrompt,     \* matchesPrompt: the argument prompt
    mKey,        \* matchesPrompt: the argument s
    mOut,        \* matchesPrompt: the pair returned, <<>> before the call
    mpc,         \* matchesPrompt: "call" before the call, "done" after it
    rPrompt,     \* ranking: u.Prompt
    rKeys,       \* ranking: u.Keys
    rOut,        \* ranking: u.FilteredKeys as newKeysView builds it
    rpc,         \* ranking: "call" before newKeysView ranks, "done" after it;
                 \* "edit" while the prompt is edited
    ui,          \* main: the Ui struct
    cachedSecrets, \* var cachedSecrets: name -> Secret, the process-wide map
    getCalls,    \* the store: <<mount, name>> -> secrets it has served for it
    walks,       \* the store: mount -> walks of the mount it has served
    upc,         \* main: "env" before mustGetEnv, "mounts" before GetMounts,
                 \* "start" before the first GetKeys (the screen is
                 \* initialized), "browsing" in the event loop, "halted" once
                 \* the process has ended
    exit,        \* how the process ended: [how, msg, status, quit], msg the
                 \* message on standard error, quit what the deferred quit did
    stdout,      \* what quit printed to standard output, <<>> if nothing
    gMount,      \* GetSecret: the argument mount
    gName,       \* GetSecret: the argument name
    gResp,       \* GetSecret: what the store answers if it is asked
    gOut,        \* GetSecret: [ret, panicked] as the call ended, <<>> before it
    gpc          \* GetSecret: "call" before the call, "done" after it

walkVars == <<secrets, status, cachedKeys, cpc, task, closed, keys,
              result, prev, runs, errLogged>>
matchVars == <<mPrompt, mKey, mOut, mpc>>
rankVars == <<rPrompt, rKeys, rOut, rpc>>
uiVars == <<ui, cachedSecrets, getCalls, walks, upc, exit, stdout>>
getVars == <<gMount, gName, gResp, gOut, gpc>>
vars == <<secrets, status, cachedKeys, cpc, task, closed, keys,
          result, prev, runs, errLogged, mPrompt, mKey, mOut, mpc,
          rPrompt, rKeys, rOut, rpc,
          ui, cachedSecrets, getCalls, walks, upc, exit, stdout,
          gMount, gName, gResp, gOut, gpc>>

(***************************************************************************)
(* Bounds of the model.                                                    *)
(***************************************************************************)
MaxDepth == 1
MaxSecrets == 2
MaxPromptLen == 2
MaxKeyLen == 3
MaxRankKeys == 3

(***************************************************************************)
(* Strings.                                                                *)
(***************************************************************************)
Range(s) == {s[i] : i \in 1..Len(s)}

HasSuffix(s, c) == Len(s) > 0 /\ s[Len(s)] = c

HasPrefix(s, p) == Len(p) <= Len(s) /\ SubSeq(s, 1, Len(p)) = p

Min(a, b) == IF a <= b THEN a ELSE b

(***************************************************************************)
(* main: the Ui struct before the interactive session has started.         *)
(***************************************************************************)
\* vault.Secret{}, the zero value.
ZeroSecret == [Url |-> <<>>, Data |-> [Data |-> <<>>, Metadata |-> <<>>]]

\* newUi: the Ui over the mounts GetMounts returned, on a screen of height rows.
newUi(mounts, height) ==
    [Keys |-> <<>>, FilteredKeys |-> <<>>, Secret |-> ZeroSecret, Prompt |-> <<>>,
     ViewStart |-> 0, ViewEnd |-> 0, Cursor |-> 0, Height |-> height,
     Result |-> <<>>, Mounts |-> mounts, CurrentMount |-> 0, ShowHelp |-> TRUE]

\* The process is running: it has not ended, quit has not run.
Running == [how |-> "none", msg |-> "", status |-> -1, quit |-> <<>>]

GetNotCalled ==
    /\ gMount = ""
    /\ gName = <<>>
    /\ gResp = <<>>
    /\ gOut = <<>>
    /\ gpc = "call"

UiNotStarted ==
    /\ ui = newUi(<<>>, 0)
    /\ cachedSecrets = <<>>
    /\ getCalls = <<>>
    /\ walks = <<>>
    /\ upc = "env"
    /\ exit = Running
    /\ stdout = <<>>
    /\ GetNotCalled

Root == <<"/">>

Mount == "secret"

(***************************************************************************)
(* The store.  A secret is written at a path /seg/seg/.../name; the store  *)
(* keeps no directories of its own: a directory exists while a secret lies *)
(* under it.                                                               *)
(***************************************************************************)
NameChars == {"a", "b"}

RECURSIVE Join(_)
Join(segs) ==
    IF Len(segs) = 1 THEN <<segs[1]>>
    ELSE <<segs[1], "/">> \o Join(Tail(segs))

\* The paths a secret can be written at: up to MaxDepth directories deep.
SecretPaths ==
    {Root \o Join(sg) : sg \in UNION {[1..n -> NameChars] : n \in 1..(MaxDepth + 1)}}

\* The directories above path p, each with its trailing "/".
DirsAbove(p) == {SubSeq(p, 1, i) : i \in {j \in 1..(Len(p) - 1) : p[j] = "/"}}

DirsOf(S) == UNION {DirsAbove(p) : p \in S}

FirstSlash(s) == CHOOSE i \in 1..Len(s) : s[i] = "/" /\ \A j \in 1..(i - 1) : s[j] # "/"

\* The keys the store lists for directory d: the next segment of every secret
\* below d, with a trailing "/" when that segment is itself a directory.
StoreKeys(d) ==
    {LET rest == SubSeq(p, Len(d) + 1, Len(p))
     IN  IF "/" \in Range(rest) THEN SubSeq(rest, 1, FirstSlash(rest)) ELSE rest
     : p \in {q \in secrets : HasPrefix(q, d) /\ Len(q) > Len(d)}}

\* populate: one secret is written to the mount, before the walk.
Populate(p) ==
    /\ cpc = "setup"
    /\ p \notin secrets
    /\ Cardinality(secrets) < MaxSecrets
    /\ secrets' = secrets \cup {p}
    /\ UNCHANGED <<status, cachedKeys, cpc, task, closed, keys,
                   result, prev, runs, errLogged, matchVars, rankVars, uiVars, getVars>>

\* The statuses a list request is answered with: 200, 403 (the token's policy
\* denies listing the directory), and 500 for every other failure (no response,
\* another status, a body that does not parse).
StatusCodes == {200, 403, 500}

\* The store is unchanged during and between the walks: a directory that was
\* listed answers the same status again.
Answers(d) == IF d \in DOMAIN status THEN {status[d]} ELSE StatusCodes

Answered(d, code) == [x \in DOMAIN status \cup {d} |-> IF x = d THEN code ELSE status[x]]

forbidden == {d \in DOMAIN status : status[d] = 403}

failing == {d \in DOMAIN status : status[d] \notin {200, 403}}

(***************************************************************************)
(* internal/vault: Client.listDir, Client.recurse, Client.GetKeys.         *)
(***************************************************************************)
\* Mutant of IsDirKey: the trailing "/" is not looked at, no entry is a directory.
IsDirKeyNever(key) == FALSE

\* strings.HasSuffix(key, "/"): the entry is a directory.
IsDirKey(key) == HasSuffix(key, "/")

\* Mutant of listDir: 403 is not told apart from the other statuses that are not 200.
listDirForbiddenIsError(name, code) ==
    IF code # 200 THEN [err |-> TRUE, entries |-> {}]
    ELSE [err |-> FALSE,
          entries |-> {[Name |-> key, IsDir |-> IsDirKey(key)] : key \in StoreKeys(name)}]

\* listDir, the response having status code: the error, and the entries listed.
listDir(name, code) ==
    IF code = 403 THEN [err |-> FALSE, entries |-> {}]
    ELSE IF code # 200 THEN [err |-> TRUE, entries |-> {}]
    ELSE [err |-> FALSE,
          entries |-> {[Name |-> key, IsDir |-> IsDirKey(key)] : key \in StoreKeys(name)}]

\* Mutant of ChildEntries: the entry keeps its relative name.
ChildEntriesRelative(name, code) ==
    {[IsDir |-> sub.IsDir, Name |-> sub.Name] : sub \in listDir(name, code).entries}

\* recurse's entries: each listed entry under the name of its directory.
ChildEntries(name, code) ==
    {[IsDir |-> sub.IsDir, Name |-> name \o sub.Name] : sub \in listDir(name, code).entries}

\* A goroutine that starts recurse(recv, mount, e): a directory goes on to list
\* itself, a secret blocks sending its name on recv.
NewTask(e) ==
    [pc |-> IF e.IsDir THEN "start" ELSE "send", isDir |-> e.IsDir, kids |-> {}]

\* Mutant of WgDone: wg.Wait() is missing, recurse returns at once.
WgDoneNoWait(name) == TRUE

\* Mutant of WgDone: wg.Done() is missing, the counter never returns to zero.
WgDoneNeverDone(name) == task[name].kids = {}

\* wg.Wait() returns: every goroutine started for an entry has run wg.Done().
WgDone(name) == \A k \in task[name].kids : k \in DOMAIN task /\ task[k].pc = "done"

\* GetKeys finds the mount in cachedKeys and returns the cached keys.
GetKeysCached ==
    /\ cpc \in {"setup", "returned"}
    /\ Mount \in DOMAIN cachedKeys
    /\ result' = cachedKeys[Mount]
    /\ prev' = Range(result)
    /\ runs' = "cached"
    /\ cpc' = "returned"
    /\ UNCHANGED <<secrets, status, cachedKeys, task, closed, keys,
                   errLogged, matchVars, rankVars, uiVars, getVars>>

\* GetKeys misses the cache: it makes recv, starts the goroutine that runs
\* recurse on the entrypoint "/" and goes on to range over recv.
GetKeysStart ==
    /\ cpc \in {"setup", "returned"}
    /\ Mount \notin DOMAIN cachedKeys
    /\ task' = (Root :> NewTask([IsDir |-> TRUE, Name |-> Root]))
    /\ closed' = FALSE
    /\ keys' = <<>>
    /\ prev' = Range(result)
    /\ runs' = IF runs = "none" THEN "first" ELSE "again"
    /\ result' = <<>>
    /\ cpc' = "range"
    /\ UNCHANGED <<secrets, status, cachedKeys, errLogged, matchVars, rankVars, uiVars, getVars>>

\* Mutant of RecurseListFailed: the failure ends the whole walk, recv is closed.
RecurseListFailedCloses(name, code) ==
    /\ name \in DOMAIN task
    /\ task[name].pc = "start"
    /\ code \in Answers(name)
    /\ listDir(name, code).err
    /\ status' = Answered(name, code)
    /\ errLogged' = errLogged \cup {name}
    /\ task' = [task EXCEPT ![name].pc = "done"]
    /\ closed' = TRUE
    /\ UNCHANGED <<secrets, cachedKeys, cpc, keys,
                   result, prev, runs, matchVars, rankVars, uiVars, getVars>>

\* recurse on a directory whose listDir fails: the error is logged, recurse returns.
RecurseListFailed(name, code) ==
    /\ name \in DOMAIN task
    /\ task[name].pc = "start"
    /\ code \in Answers(name)
    /\ listDir(name, code).err
    /\ status' = Answered(name, code)
    /\ errLogged' = errLogged \cup {name}
    /\ task' = [task EXCEPT ![name].pc = "done"]
    /\ UNCHANGED <<secrets, cachedKeys, cpc, closed, keys,
                   result, prev, runs, matchVars, rankVars, uiVars, getVars>>

\* recurse on a directory: one goroutine is started per entry, then wg.Wait().
\* Each goroutine walks the entry of its own iteration: the loop variable the
\* closure reads is a fresh variable per iteration (Go 1.22 and later, which the
\* range over an integer in dev-vault requires).
RecurseSpawn(name, code) ==
    /\ name \in DOMAIN task
    /\ task[name].pc = "start"
    /\ code \in Answers(name)
    /\ ~listDir(name, code).err
    /\ status' = Answered(name, code)
    /\ LET entries == ChildEntries(name, code)
           names == {e.Name : e \in entries}
       IN  task' = [n \in DOMAIN task \cup names |->
                      IF n = name THEN [task[n] EXCEPT !.pc = "wait", !.kids = names]
                      ELSE IF n \in DOMAIN task THEN task[n]
                      ELSE NewTask(CHOOSE e \in entries : e.Name = n)]
    /\ UNCHANGED <<secrets, cachedKeys, cpc, closed, keys,
                   result, prev, runs, errLogged, matchVars, rankVars, uiVars, getVars>>

\* wg.Wait() returns and with it recurse (and, in a child, the deferred wg.Done()).
RecurseJoin(name) ==
    /\ name \in DOMAIN task
    /\ task[name].pc = "wait"
    /\ WgDone(name)
    /\ task' = [task EXCEPT ![name].pc = "done"]
    /\ UNCHANGED <<secrets, status, cachedKeys, cpc, closed, keys,
                   result, prev, runs, errLogged, matchVars, rankVars, uiVars, getVars>>

\* Mutant of Receive: recv takes the name without GetKeys receiving it, the
\* send completes on its own.
ReceiveBuffered(name) ==
    /\ cpc = "range"
    /\ ~closed
    /\ name \in DOMAIN task
    /\ task[name].pc = "send"
    /\ task' = [task EXCEPT ![name].pc = "done"]
    /\ UNCHANGED <<secrets, status, cachedKeys, cpc, closed, keys, result,
                   prev, runs, errLogged, matchVars, rankVars, uiVars, getVars>>

\* recv <- entry.Name meets "for key := range recv": recv is unbuffered, the send
\* completes when GetKeys receives the key, which it appends to keys.
Receive(name) ==
    /\ cpc = "range"
    /\ ~closed
    /\ name \in DOMAIN task
    /\ task[name].pc = "send"
    /\ keys' = Append(keys, name)
    /\ task' = [task EXCEPT ![name].pc = "done"]
    /\ UNCHANGED <<secrets, status, cachedKeys, cpc, closed, result,
                   prev, runs, errLogged, matchVars, rankVars, uiVars, getVars>>

\* Mutant of CloseRecv: recv is closed without waiting for recurse to return.
CloseRecvEarly ==
    /\ cpc = "range"
    /\ ~closed
    /\ closed' = TRUE
    /\ UNCHANGED <<secrets, status, cachedKeys, cpc, task, keys,
                   result, prev, runs, errLogged, matchVars, rankVars, uiVars, getVars>>

\* The goroutine of GetKeys: recurse on the entrypoint has returned, close(recv).
CloseRecv ==
    /\ cpc = "range"
    /\ ~closed
    /\ task[Root].pc = "done"
    /\ closed' = TRUE
    /\ UNCHANGED <<secrets, status, cachedKeys, cpc, task, keys,
                   result, prev, runs, errLogged, matchVars, rankVars, uiVars, getVars>>

\* The range over recv ends on the closed channel: keys is cached and returned.
GetKeysReturn ==
    /\ cpc = "range"
    /\ closed
    /\ cachedKeys' = [m \in DOMAIN cachedKeys \cup {Mount} |->
                        IF m = Mount THEN keys ELSE cachedKeys[m]]
    /\ result' = keys
    /\ cpc' = "returned"
    /\ UNCHANGED <<secrets, status, task, closed, keys, prev, runs,
                   errLogged, matchVars, rankVars, uiVars, getVars>>

\* The process ends and pole is started again: cachedKeys is a fresh, empty map.
Restart ==
    /\ cpc = "returned"
    /\ cachedKeys # <<>>
    /\ cachedKeys' = <<>>
    /\ UNCHANGED <<secrets, status, cpc, task, closed, keys, result,
                   prev, runs, errLogged, matchVars, rankVars, uiVars, getVars>>

InitWalk ==
    /\ secrets = {}
    /\ status = <<>>
    /\ cachedKeys = <<>>
    /\ cpc = "setup"
    /\ task = <<>>
    /\ closed = FALSE
    /\ keys = <<>>
    /\ result = <<>>
    /\ prev = {}
    /\ runs = "none"
    /\ errLogged = {}
    /\ mPrompt = <<>>
    /\ mKey = <<>>
    /\ mOut = <<>>
    /\ mpc = "call"
    /\ rPrompt = <<>>
    /\ rKeys = <<>>
    /\ rOut = <<>>
    /\ rpc = "call"
    /\ UiNotStarted

WalkStep ==
    \/ GetKeysStart
    \/ GetKeysCached
    \/ \E name \in DOMAIN task, code \in StatusCodes : RecurseListFailed(name, code)
    \/ \E name \in DOMAIN task, code \in StatusCodes : RecurseSpawn(name, code)
    \/ \E name \in DOMAIN task : RecurseJoin(name)
    \/ \E name \in DOMAIN task : Receive(name)
    \/ CloseRecv
    \/ GetKeysReturn

NextWalk ==
    \/ \E p \in SecretPaths : Populate(p)
    \/ Restart
    \/ WalkStep

SpecWalk == InitWalk /\ [][NextWalk]_vars

\* Go schedules every runnable goroutine, and the store answers every request.
SpecWalkFair == SpecWalk /\ WF_vars(WalkStep)

(***************************************************************************)
(* The walk: what GetKeys returns.                                         *)
(***************************************************************************)
Returned == cpc = "returned"

\* Secret p lies under one of the directories D.
Under(p, D) == DirsAbove(p) \cap D # {}

\* The secrets the walk can reach: those under no directory that fails to list.
Reachable == {p \in secrets : ~Under(p, forbidden \cup failing)}

AllDone == \A n \in DOMAIN task : task[n].pc = "done"

\* C1: when every list request succeeds, GetKeys returns every secret path of the
\* mount exactly once and nothing else: as many keys as secrets, the same set.
C1_ExactlyTheLeaves ==
    (Returned /\ forbidden = {} /\ failing = {}) =>
        /\ Len(result) = Cardinality(secrets)
        /\ Range(result) = secrets
        /\ \A i, j \in 1..Len(result) : i # j => result[i] # result[j]

C1_Witness ==
    /\ Returned /\ forbidden = {} /\ failing = {}
    /\ Cardinality(secrets) = MaxSecrets
    /\ \E p \in secrets : Cardinality(DirsAbove(p)) = MaxDepth + 1
    /\ \E p \in secrets : Cardinality(DirsAbove(p)) = 1

\* C2: GetKeys terminates: once it ranges over recv it eventually returns, with
\* every goroutine of the walk finished (none left blocked on recv).
C2_Terminates == (cpc = "range") ~> (cpc = "returned" /\ AllDone)

C2_Witness ==
    /\ cpc = "returned" /\ AllDone
    /\ errLogged # {}
    /\ Len(result) >= 1
    /\ \E n \in DOMAIN task : task[n].isDir /\ n # Root /\ task[n].kids # {}

\* C3: recv is closed only after every goroutine of the walk has finished: a
\* directory's recurse is done only when those of its entries are, no goroutine
\* is left sending on the closed channel, and every key sent has been received.
C3_CloseAfterJoin ==
    /\ closed => AllDone
    /\ \A n \in DOMAIN task :
         task[n].pc = "done" =>
            \A k \in task[n].kids : k \in DOMAIN task /\ task[k].pc = "done"
    /\ ~(closed /\ \E n \in DOMAIN task : task[n].pc = "send")
    /\ \A n \in DOMAIN task :
         (~task[n].isDir /\ task[n].pc = "done") => n \in Range(keys)

C3_Witness ==
    /\ closed /\ cpc = "range"
    /\ Len(keys) = MaxSecrets
    /\ \E n \in task[Root].kids :
         task[n].isDir /\ \E k \in task[n].kids : k \in Range(keys)

\* C4: a directory that answers 403 contributes no key and logs no error, and
\* GetKeys still returns every secret that can be reached.
C4_ForbiddenSkipped ==
    /\ forbidden \cap errLogged = {}
    /\ Returned =>
         /\ \A i \in 1..Len(result) : ~Under(result[i], forbidden)
         /\ \A p \in secrets : ~Under(p, forbidden \cup failing) => p \in Range(result)

C4_Witness ==
    /\ Returned
    /\ \E d \in forbidden :
         /\ d # Root
         /\ d \in DOMAIN task /\ task[d].pc = "done"
         /\ \E p \in secrets : Under(p, {d})
    /\ result # <<>>

\* C5: a directory whose listing fails aborts only its own branch: GetKeys
\* returns, and returns exactly the secrets that are under no failed directory,
\* each once; only the failed directory is logged.
C5_FailureIsolated ==
    /\ errLogged \subseteq failing
    /\ (Returned /\ failing # {}) =>
         /\ Range(result) = Reachable
         /\ Len(result) = Cardinality(Reachable)

C5_Witness ==
    /\ Returned
    /\ \E d \in errLogged : d # Root /\ \E p \in secrets : Under(p, {d})
    /\ \E i \in 1..Len(result) : Cardinality(DirsAbove(result[i])) > 1

C7_SameSetEveryRun ==
    (cpc = "returned" /\ runs \in {"cached", "again"}) => Range(result) = prev

C7_Witness ==
    /\ cpc = "returned" /\ runs = "again"
    /\ Len(result) >= 2
    /\ Range(result) = prev

(***************************************************************************)
(* main: matchesPrompt.                                                    *)
(* A string is a sequence of characters.  An ASCII character is written as *)
(* itself and is one byte; the others are named (e_acute is U+00E9) and    *)
(* are several bytes in UTF-8, the encoding of a Go string: matchesPrompt  *)
(* indexes prompt by byte and ranges over []byte(s).                       *)
(***************************************************************************)
UpperCase == <<"A", "B", "C", "D", "E", "F", "G", "H", "I", "J", "K", "L", "M",
               "N", "O", "P", "Q", "R", "S", "T", "U", "V", "W", "X", "Y", "Z",
               "E_acute", "U_uml">>

LowerCase == <<"a", "b", "c", "d", "e", "f", "g", "h", "i", "j", "k", "l", "m",
               "n", "o", "p", "q", "r", "s", "t", "u", "v", "w", "x", "y", "z",
               "e_acute", "u_uml">>

\* The UTF-8 encoding of a character: U+00C9, U+00E9, U+00DC, U+00FC, U+00A9,
\* U+0131, U+FFFD, and the ASCII characters, each its own byte.  A byte that is
\* not part of a character (what is left of an encoding cut short) stands in a
\* string under its own name.
Utf8(c) ==
    CASE c = "E_acute" -> <<"0xC3", "0x89">>
      [] c = "RuneError" -> <<"0xEF", "0xBF", "0xBD">>
      [] c = "e_acute" -> <<"0xC3", "0xA9">>
      [] c = "U_uml" -> <<"0xC3", "0x9C">>
      [] c = "u_uml" -> <<"0xC3", "0xBC">>
      [] c = "copyright" -> <<"0xC2", "0xA9">>
      [] c = "dotless_i" -> <<"0xC4", "0xB1">>
      [] OTHER -> <<c>>

\* []byte(s): the bytes of string s.
RECURSIVE Bytes(_)
Bytes(s) == IF Len(s) = 0 THEN <<>> ELSE Utf8(s[1]) \o Bytes(Tail(s))

\* unicode.ToLower on the characters of the model: upper case letter -> lower case.
LowerOf ==
    [c \in Range(UpperCase) |-> LowerCase[CHOOSE i \in 1..Len(UpperCase) : UpperCase[i] = c]]

\* The bytes that may be left of an encoding cut short.
InvalidBytes == {"0xC2", "0xC3", "0xC4", "0xEF", "0xBF"}

\* strings.ToLower maps a string that is not all ASCII with strings.Map, which
\* writes utf8.RuneError, U+FFFD, for a byte that is not part of a character.
ToLowerChar(c) ==
    IF c \in InvalidBytes THEN "RuneError"
    ELSE IF c \in DOMAIN LowerOf THEN LowerOf[c] ELSE c

\* s[:len(s)-1]: the string without its last byte.  The bytes that stay of a
\* last character of several bytes are no character any more.
dropLastByte(s) ==
    LET b == Utf8(s[Len(s)])
    IN  SubSeq(s, 1, Len(s) - 1) \o SubSeq(b, 1, Len(b) - 1)

\* strings.ToLower.
ToLower(s) == [i \in 1..Len(s) |-> ToLowerChar(s[i])]

\* unicode.ToUpper: the upper case of U+0131, the dotless i, is the letter I.
ToUpperChar(c) ==
    IF c = "dotless_i" THEN "I"
    ELSE IF \E i \in 1..Len(LowerCase) : LowerCase[i] = c
    THEN UpperCase[CHOOSE i \in 1..Len(LowerCase) : LowerCase[i] = c]
    ELSE c

\* strings.ToUpper.
ToUpper(s) == [i \in 1..Len(s) |-> ToUpperChar(s[i])]

\* Mutant of matchLoop: a prompt that is not matched returns the pairs counted so far.
RECURSIVE matchLoopKeepsCount(_, _, _, _, _, _)
matchLoopKeepsCount(prompt, s, i, index, consecutive, previousMatched) ==
    IF i > Len(s) THEN <<FALSE, consecutive>>
    ELSE IF s[i] = prompt[index + 1]
    THEN LET counted == IF previousMatched THEN consecutive + 1 ELSE consecutive
         IN  IF index = Len(prompt) - 1 THEN <<TRUE, counted>>
             ELSE matchLoopKeepsCount(prompt, s, i + 1, index + 1, counted, TRUE)
    ELSE matchLoopKeepsCount(prompt, s, i + 1, index, consecutive, FALSE)

\* The loop of matchesPrompt from byte i of s on, prompt and s being the bytes of
\* the lowered strings (i counts from 1, index from 0 as in the code), with the
\* locals index, consecutive and previousMatched.
RECURSIVE matchLoop(_, _, _, _, _, _)
matchLoop(prompt, s, i, index, consecutive, previousMatched) ==
    IF i > Len(s) THEN <<FALSE, 0>>
    ELSE IF s[i] = prompt[index + 1]
    THEN LET counted == IF previousMatched THEN consecutive + 1 ELSE consecutive
         IN  IF index = Len(prompt) - 1 THEN <<TRUE, counted>>
             ELSE matchLoop(prompt, s, i + 1, index + 1, counted, TRUE)
    ELSE matchLoop(prompt, s, i + 1, index, consecutive, FALSE)

matchesPrompt(prompt, s) ==
    IF Len(Bytes(prompt)) = 0 THEN <<TRUE, 0>>
    ELSE matchLoop(Bytes(ToLower(prompt)), Bytes(ToLower(s)), 1, 0, 0, FALSE)

\* The table of TestMatchesPrompt.
TestTable == {
    [prompt |-> <<"s", "e", "t">>,
     key |-> <<"s", "e", "c", "r", "e", "t">>,
     match |-> TRUE, consecutive |-> 1],
    [prompt |-> <<"s", "e", "e", "t">>,
     key |-> <<"s", "e", "c", "r", "e", "t">>,
     match |-> TRUE, consecutive |-> 2],
    [prompt |-> <<"s", "e", "c", "r", "e", "t">>,
     key |-> <<"s", "e", "c", "r", "e", "t">>,
     match |-> TRUE, consecutive |-> 5],
    [prompt |-> <<"u", "s", "e", "r">>,
     key |-> <<"/", "u", "s", "e", "r">>,
     match |-> TRUE, consecutive |-> 3],
    [prompt |-> <<"u", "s", "e", "r">>,
     key |-> <<"/", "i", "f", "/", "y", "o", "u", "/", "c", "a", "n", "/", "r", "e",
             "a", "d", "/", "t", "h", "e", "/", "f", "u", "l", "l", "/", "p", "a",
             "t", "h", "/", "o", "f", "/", "t", "h", "i", "s", "/", "k", "e", "y",
             "/", "y", "o", "u", "/", "a", "r", "e", "/", "t", "h", "e", "/", "p",
             "e", "r", "s", "o", "n", "/", "i", "n", "/", "t", "h", "e", "/", "r",
             "e", "d", "/", "f", "l", "a", "g", "/", "m", "o", "n", "i", "t", "o",
             "r", "/", "m", "e", "m", "e">>,
     match |-> TRUE, consecutive |-> 0],
    [prompt |-> <<"u", "s", "e", "r">>,
     key |-> <<"U", "s", "E", "r">>,
     match |-> TRUE, consecutive |-> 3],
    [prompt |-> <<"a", "s", "d", "f">>,
     key |-> <<"s", "e", "c", "r", "e", "t">>,
     match |-> FALSE, consecutive |-> 0],
    [prompt |-> <<"a">>,
     key |-> <<"s", "e", "c", "r", "e", "t">>,
     match |-> FALSE, consecutive |-> 0],
    [prompt |-> <<"s", "e", "e", "e", "t">>,
     key |-> <<"s", "e", "c", "r", "e", "t">>,
     match |-> FALSE, consecutive |-> 0]}

\* The characters prompts and keys are drawn from.
MatchChars == {"a", "b", "A", "e_acute", "u_uml", "copyright", "dotless_i"}

StringsUpTo(n) == UNION {[1..k -> MatchChars] : k \in 0..n}

InitMatch ==
    /\ secrets = {}
    /\ status = <<>>
    /\ cachedKeys = <<>>
    /\ cpc = "setup"
    /\ task = <<>>
    /\ closed = FALSE
    /\ keys = <<>>
    /\ result = <<>>
    /\ prev = {}
    /\ runs = "none"
    /\ errLogged = {}
    /\ \/ mPrompt \in StringsUpTo(MaxPromptLen) /\ mKey \in StringsUpTo(MaxKeyLen)
       \/ \E t \in TestTable : mPrompt = t.prompt /\ mKey = t.key
    /\ mOut = <<>>
    /\ mpc = "call"
    /\ rPrompt = <<>>
    /\ rKeys = <<>>
    /\ rOut = <<>>
    /\ rpc = "call"
    /\ UiNotStarted

CallMatchesPrompt ==
    /\ mpc = "call"
    /\ mOut' = matchesPrompt(mPrompt, mKey)
    /\ mpc' = "done"
    /\ UNCHANGED <<mPrompt, mKey, walkVars, rankVars, uiVars, getVars>>

NextMatch == CallMatchesPrompt

SpecMatch == InitMatch /\ [][NextMatch]_vars

(***************************************************************************)
(* The matcher: what matchesPrompt returns.                                *)
(***************************************************************************)
\* x and y are the same character, whatever the case of each.
SameLetter(x, y) ==
    x = y \/ \E i \in 1..Len(UpperCase) : {x, y} = {UpperCase[i], LowerCase[i]}

\* The characters of p are found in c, in order, whatever the case of each.
RECURSIVE IsSubsequence(_, _)
IsSubsequence(p, c) ==
    \/ Len(p) = 0
    \/ /\ Len(c) > 0
       /\ \/ SameLetter(p[1], c[1]) /\ IsSubsequence(Tail(p), Tail(c))
          \/ IsSubsequence(p, Tail(c))

\* The bytes of p are found among the bytes of c, in order.
RECURSIVE IsByteSubsequence(_, _)
IsByteSubsequence(p, c) ==
    \/ Len(p) = 0
    \/ /\ Len(c) > 0
       /\ \/ p[1] = c[1] /\ IsByteSubsequence(Tail(p), Tail(c))
          \/ IsByteSubsequence(p, Tail(c))

\* The position in c that the left-to-right greedy scan matches p[i] at, 0 if none.
RECURSIVE MatchPos(_, _, _)
MatchPos(p, c, i) ==
    LET before == IF i = 1 THEN 0 ELSE MatchPos(p, c, i - 1)
        found == {j \in (before + 1)..Len(c) : SameLetter(c[j], p[i])}
    IN  IF (i > 1 /\ before = 0) \/ found = {} THEN 0
        ELSE CHOOSE j \in found : \A k \in found : j <= k

\* The prompt characters after the first matched right after their predecessor.
AdjacentPairs(p, c) ==
    Cardinality({i \in 2..Len(p) : MatchPos(p, c, i) = MatchPos(p, c, i - 1) + 1})

C9_ScoreCountsAdjacentPairs ==
    (mpc = "done" /\ mOut[1]) =>
        mOut[2] = (IF Len(mPrompt) = 0 THEN 0 ELSE AdjacentPairs(mPrompt, mKey))

\* C10: a non-empty prompt that the scan cannot match in full before the
\* candidate runs out gives exactly (false, 0), whatever was matched and counted
\* until then; so do the pairs of TestMatchesPrompt that are expected not to match.
C10_NoMatchIsFalseZero ==
    mpc = "done" =>
        /\ (/\ Len(mPrompt) > 0
            /\ ~IsByteSubsequence(Bytes(ToLower(mPrompt)), Bytes(ToLower(mKey))))
              => mOut = <<FALSE, 0>>
        /\ ~mOut[1] => mOut[2] = 0
        /\ \A t \in TestTable :
             (mPrompt = t.prompt /\ mKey = t.key /\ ~t.match) => mOut = <<FALSE, 0>>

C10_Witness ==
    /\ mpc = "done"
    /\ mOut = <<FALSE, 0>>
    /\ Len(mPrompt) >= 3
    /\ MatchPos(mPrompt, mKey, 2) = MatchPos(mPrompt, mKey, 1) + 1

\* C11: matching is case-insensitive in both arguments: matchesPrompt(P, C)
\* returns the pair that matchesPrompt(upper(P), lower(C)) returns.
C11_CaseInsensitive ==
    mpc = "done" => mOut = matchesPrompt(ToUpper(mPrompt), ToLower(mKey))

(***************************************************************************)
(* main: the ranking of newKeysView.  The keys that match the prompt are   *)
(* collected with their scores, sorted with slices.SortFunc and projected  *)
(* back to keys.  slices.SortFunc is the pattern-defeating quicksort of    *)
(* the Go library: a slice of at most maxInsertion elements is sorted by   *)
(* insertion, a longer one is partitioned around a pivot first.            *)
(***************************************************************************)
\* The loop of newKeysView that appends a Match for every key matching the prompt.
RECURSIVE matchesOf(_, _)
matchesOf(Prompt, Keys) ==
    IF Len(Keys) = 0 THEN <<>>
    ELSE LET m == matchesPrompt(Prompt, Keys[1])
         IN  (IF m[1] THEN <<[Key |-> Keys[1], ConsecutiveMatches |-> m[2]]>> ELSE <<>>)
                 \o matchesOf(Prompt, Tail(Keys))

\* The comparison newKeysView sorts with, and "a sorts before b" under it.
cmp(a, b) == b.ConsecutiveMatches - a.ConsecutiveMatches

less(a, b) == cmp(a, b) < 0

Swap(data, i, j) == [data EXCEPT ![i] = data[j], ![j] = data[i]]

\* slices.SortFunc on a short slice, insertion sort: each element moves left
\* past the elements it sorts before.
RECURSIVE insertLeft(_, _)
insertLeft(data, j) ==
    IF j > 1 /\ less(data[j], data[j - 1]) THEN insertLeft(Swap(data, j, j - 1), j - 1)
    ELSE data

RECURSIVE insertionSortFrom(_, _)
insertionSortFrom(data, i) ==
    IF i > Len(data) THEN data ELSE insertionSortFrom(insertLeft(data, i), i + 1)

insertionSort(data) == insertionSortFrom(data, 2)

maxInsertion == 12

\* slices.SortFunc on a longer slice (of fewer than 50 elements): the pivot is
\* the median of the elements at a quarter, a half and three quarters.
order2(data, a, b) == IF less(data[b], data[a]) THEN <<b, a>> ELSE <<a, b>>

median(data, a, b, c) ==
    LET ab == order2(data, a, b)
        bc == order2(data, ab[2], c)
        ab2 == order2(data, ab[1], bc[1])
    IN  ab2[2]

choosePivot(data) ==
    LET l == Len(data)
    IN  median(data, (l \div 4) + 1, (l \div 4) * 2 + 1, (l \div 4) * 3 + 1)

\* The slice is in order already: slices.SortFunc leaves it as it is.
IsSorted(data) == \A i \in 2..Len(data) : ~less(data[i], data[i - 1])

\* The partition: the pivot is swapped to the front, elements sorting before
\* it and elements not sorting before it are exchanged from both ends, and the
\* pivot is swapped to where the two scans met.
RECURSIVE scanUp(_, _, _)
scanUp(data, i, j) ==
    IF i <= j /\ less(data[i], data[1]) THEN scanUp(data, i + 1, j) ELSE i

RECURSIVE scanDown(_, _, _)
scanDown(data, i, j) ==
    IF i <= j /\ ~less(data[j], data[1]) THEN scanDown(data, i, j - 1) ELSE j

RECURSIVE partitionLoop(_, _, _)
partitionLoop(data, i, j) ==
    LET i2 == scanUp(data, i, j)
        j2 == scanDown(data, i2, j)
    IN  IF i2 > j2 THEN [data |-> Swap(data, j2, 1), mid |-> j2]
        ELSE partitionLoop(Swap(data, i2, j2), i2 + 1, j2 - 1)

partition(data, pivot) == partitionLoop(Swap(data, 1, pivot), 2, Len(data))

\* Mutant of SortFunc: the matches are not sorted.
SortFuncMissing(data) == data

\* slices.SortFunc(matches, cmp).  A slice of maxInsertion + 1 elements is
\* partitioned once and both sides are then short; longer slices are not drawn.
SortFunc(data) ==
    IF Len(data) <= maxInsertion THEN insertionSort(data)
    ELSE IF IsSorted(data) THEN data
    ELSE LET p == partition(data, choosePivot(data))
         IN  insertionSort(SubSeq(p.data, 1, p.mid - 1))
                 \o <<p.data[p.mid]>>
                 \o insertionSort(SubSeq(p.data, p.mid + 1, Len(data)))

\* u.FilteredKeys as newKeysView builds it from u.Prompt and u.Keys.
FilteredKeysOf(Prompt, Keys) ==
    LET matches == SortFunc(matchesOf(Prompt, Keys))
    IN  [i \in 1..Len(matches) |-> matches[i].Key]

\* The keys and prompts the ranking is run on: short lists of the keys of
\* TestGetKeys, and the thirteen keys "/a/bc" .. "/a/bn", "/ab".
RankKeys == {<<"/", "f", "o", "o">>, <<"/", "b", "a", "r", "/", "b", "a", "z">>,
             <<"/", "a", "b">>}

RankPrompts == {<<>>, <<"b">>, <<"b", "a">>, <<"a", "b">>}

TiedTail == <<"c", "d", "e", "f", "g", "h", "i", "j", "k", "l", "m", "n">>

LongKeys == [i \in 1..Len(TiedTail) |-> <<"/", "a", "/", "b", TiedTail[i]>>]
                \o <<<<"/", "a", "b">>>>

InitRank ==
    /\ secrets = {}
    /\ status = <<>>
    /\ cachedKeys = <<>>
    /\ cpc = "setup"
    /\ task = <<>>
    /\ closed = FALSE
    /\ keys = <<>>
    /\ result = <<>>
    /\ prev = {}
    /\ runs = "none"
    /\ errLogged = {}
    /\ mPrompt = <<>>
    /\ mKey = <<>>
    /\ mOut = <<>>
    /\ mpc = "call"
    /\ rPrompt \in RankPrompts
    /\ \/ rKeys \in UNION {[1..k -> RankKeys] : k \in 0..MaxRankKeys}
       \/ rKeys = LongKeys
    /\ rOut = <<>>
    /\ rpc = "call"
    /\ UiNotStarted

CallRank ==
    /\ rpc = "call"
    /\ rOut' = FilteredKeysOf(rPrompt, rKeys)
    /\ rpc' = "done"
    /\ UNCHANGED <<rPrompt, rKeys, walkVars, matchVars, uiVars, getVars>>

NextRank == CallRank

SpecRank == InitRank /\ [][NextRank]_vars

(***************************************************************************)
(* main: the prompt under edits.  The KeyRune case adds the character      *)
(* typed, the KeyBackspace case cuts the last byte, and newKeysView ranks   *)
(* the keys under the prompt that results.                                 *)
(***************************************************************************)
\* The keys of the mount and the characters typed: one of them is two bytes.
PromptKeys == {<<"/", "a">>, <<"/", "a", "b">>, <<"/", "e_acute">>}

PromptRunes == {"a", "b", "e_acute"}

InitPrompt ==
    /\ secrets = {}
    /\ status = <<>>
    /\ cachedKeys = <<>>
    /\ cpc = "setup"
    /\ task = <<>>
    /\ closed = FALSE
    /\ keys = <<>>
    /\ result = <<>>
    /\ prev = {}
    /\ runs = "none"
    /\ errLogged = {}
    /\ mPrompt = <<>>
    /\ mKey = <<>>
    /\ mOut = <<>>
    /\ mpc = "call"
    /\ rPrompt = <<>>
    /\ rKeys \in UNION {[1..k -> PromptKeys] : k \in 0..MaxRankKeys}
    /\ rOut = FilteredKeysOf(rPrompt, rKeys)
    /\ rpc = "edit"
    /\ UiNotStarted

\* The default of the KeyRune case: ui.Prompt += string(ev.Rune()), newKeysView.
PromptRune ==
    /\ rpc = "edit"
    /\ Len(rPrompt) < MaxPromptLen
    /\ \E c \in PromptRunes : rPrompt' = Append(rPrompt, c)
    /\ rOut' = FilteredKeysOf(rPrompt', rKeys)
    /\ UNCHANGED <<rKeys, rpc, walkVars, matchVars, uiVars, getVars>>

\* The KeyBackspace case: ui.Prompt = ui.Prompt[:len(ui.Prompt)-1], newKeysView,
\* when the prompt is not empty.
PromptBackspace ==
    /\ rpc = "edit"
    /\ Len(Bytes(rPrompt)) > 0
    /\ rPrompt' = dropLastByte(rPrompt)
    /\ rOut' = FilteredKeysOf(rPrompt', rKeys)
    /\ UNCHANGED <<rKeys, rpc, walkVars, matchVars, uiVars, getVars>>

NextPrompt == PromptRune \/ PromptBackspace

SpecPrompt == InitPrompt /\ [][NextPrompt]_vars

(***************************************************************************)
(* The ranking: what newKeysView leaves in FilteredKeys.                   *)
(***************************************************************************)
Count(seq, x) == Cardinality({i \in 1..Len(seq) : seq[i] = x})

Score(k) == matchesPrompt(rPrompt, k)[2]

Matching(k) == matchesPrompt(rPrompt, k)[1]

\* The elements of seq that match the prompt with score n, in the order of seq.
RECURSIVE WithScore(_, _)
WithScore(seq, n) ==
    IF Len(seq) = 0 THEN <<>>
    ELSE (IF Matching(seq[1]) /\ Score(seq[1]) = n THEN <<seq[1]>> ELSE <<>>)
             \o WithScore(Tail(seq), n)

\* C12: after the re-rank, filtered holds exactly the keys that match the prompt,
\* each as often as it occurs in allPaths, with scores that do not increase along
\* filtered; with the empty prompt it holds every key.
C12_FilteredIsMatchesByScore ==
    rpc = "done" =>
        /\ \A k \in Range(rKeys) \cup Range(rOut) :
             Count(rOut, k) = (IF Matching(k) THEN Count(rKeys, k) ELSE 0)
        /\ \A i \in 2..Len(rOut) : Score(rOut[i]) <= Score(rOut[i - 1])
        /\ Len(rPrompt) = 0 => Len(rOut) = Len(rKeys)

C12_Witness ==
    /\ rpc = "done"
    /\ Len(rOut) >= 2
    /\ Len(rOut) < Len(rKeys)
    /\ Score(rOut[1]) > Score(rOut[Len(rOut)])
    /\ \E i \in 1..Len(rKeys) :
         /\ Matching(rKeys[i]) /\ Score(rKeys[i]) < Score(rOut[1])
         /\ \A j \in 1..(i - 1) : ~Matching(rKeys[j])

\* C13: the ranking is stable: candidates with the same score stand in filtered
\* in the order they stand in allPaths.
C13_RankingIsStable ==
    rpc = "done" => \A n \in {Score(k) : k \in Range(rOut)} :
                      WithScore(rOut, n) = WithScore(rKeys, n)

(***************************************************************************)
(* main: the interactive session.  A handler is an operator from the       *)
(* machine it runs on (the Ui struct, the process-wide caches, what the    *)
(* store has served) to the machine it leaves; panicked holds the message  *)
(* of a panic raised on the way, "" if none.  The store's part in a        *)
(* handler (whether a Get succeeds, in which order a walk returns the      *)
(* keys) is an argument of the handler.                                    *)
(***************************************************************************)
Machine ==
    [ui |-> ui, cachedSecrets |-> cachedSecrets, getCalls |-> getCalls,
     cachedKeys |-> cachedKeys, walks |-> walks, ret |-> <<>>, panicked |-> ""]

\* The store: the mounts GetMounts may return (sorted), and the secret paths of
\* each mount in lexicographic order.  "/a" and "/c" are paths of both mounts.
MountLists == {<<>>, <<"kv">>, <<"kv", "secret">>}

StorePaths(mount) ==
    IF mount = "kv"
    THEN <<<<"/", "a">>, <<"/", "a", "a">>, <<"/", "a", "b">>, <<"/", "b">>,
           <<"/", "b", "a">>, <<"/", "b", "b">>, <<"/", "c">>>>
    ELSE <<<<"/", "a">>, <<"/", "c">>>>

\* The data the store keeps at a path of a mount.
StoreData(mount, name) == <<mount, name>>

\* The status codes of the answers to a Get.
GetStatusCodes == {200, 404, 500}

\* What the store may answer to a Get of name in mount: whether
\* http.DefaultClient.Do fails, the status code, whether the body is refused
\* by json.Unmarshal, and the members data.data and data.metadata of the
\* decoded body.  json.Unmarshal leaves a nil map for a member that is absent
\* or null: <<>>.
Responses(mount, name) ==
    [DoFails : BOOLEAN, StatusCode : GetStatusCodes, Malformed : BOOLEAN,
     Data : {<<>>, StoreData(mount, name)},
     Metadata : {<<>>, <<"created_time">>}]

\* The store of the interactive session.  A Get that goes wrong is answered
\* with 500 and an error body; "/c" has been deleted, it is still listed and
\* its Get is answered with 404 and a body that holds metadata only; any
\* other secret is answered with 200, its data and its metadata.
Answer(mount, name, ok) ==
    IF ~ok
    THEN [DoFails |-> FALSE, StatusCode |-> 500, Malformed |-> FALSE,
          Data |-> <<>>, Metadata |-> <<>>]
    ELSE IF name = <<"/", "c">>
    THEN [DoFails |-> FALSE, StatusCode |-> 404, Malformed |-> FALSE,
          Data |-> <<>>, Metadata |-> <<"deletion_time">>]
    ELSE [DoFails |-> FALSE, StatusCode |-> 200, Malformed |-> FALSE,
          Data |-> StoreData(mount, name), Metadata |-> <<"created_time">>]

Reverse(seq) == [i \in 1..Len(seq) |-> seq[Len(seq) + 1 - i]]

\* The order a walk returns the keys in depends on the interleaving of its
\* goroutines (SpecWalk); two orders are drawn here.
WalkOrders == {"lexicographic", "reverse"}

Walked(mount, order) ==
    IF order = "lexicographic" THEN StorePaths(mount) ELSE Reverse(StorePaths(mount))

\* The terminal heights screen.Size() reports.
Heights == {1, 2, 3, 8}

\* The characters typed: two that match keys, and the three main treats apart.
TypedRunes == {"a", "b", "?", ",", ";"}

MaxUiPrompt == 2

Served(f, x) ==
    [y \in DOMAIN f \cup {x} |->
        IF y = x THEN (IF x \in DOMAIN f THEN f[x] + 1 ELSE 1) ELSE f[y]]

\* Client.GetKeys as the session sees it: the cached keys, or the keys of a
\* walk, which are cached.
GetKeys(M, mount, order) ==
    IF mount \in DOMAIN M.cachedKeys THEN [M EXCEPT !.ret = M.cachedKeys[mount]]
    ELSE [M EXCEPT !.ret = Walked(mount, order),
                   !.cachedKeys = (mount :> Walked(mount, order)) @@ @,
                   !.walks = Served(@, mount)]

\* The panics of GetSecret.
GetPanics == {"Failed to perform request", "Failed to unmarshal response body",
              "Got an error status"}

\* Mutant of isErrorForRealForReal: metadata is not looked at.
isErrorDataOnly(secret) == secret.Data.Data = <<>>

isErrorForRealForReal(secret) ==
    secret.Data.Data = <<>> /\ secret.Data.Metadata = <<>>

\* GetSecret past the cache: the request, the decoding of the body, the check
\* of the status, the Url, the store into cachedSecrets.
fetchSecret(M, mount, name, resp) ==
    LET decoded == [Url |-> <<>>,
                    Data |-> [Data |-> resp.Data, Metadata |-> resp.Metadata]]
        secret == [decoded EXCEPT !.Url = [mount |-> mount, name |-> name]]
    IN  IF resp.DoFails THEN [M EXCEPT !.panicked = "Failed to perform request"]
        ELSE IF resp.Malformed
        THEN [M EXCEPT !.panicked = "Failed to unmarshal response body"]
        ELSE IF resp.StatusCode # 200 /\ isErrorForRealForReal(decoded)
        THEN [M EXCEPT !.panicked = "Got an error status"]
        ELSE [M EXCEPT !.ret = secret,
                       !.cachedSecrets = (name :> secret) @@ @,
                       !.getCalls = Served(@, <<mount, name>>)]

\* Mutant of GetSecret: cachedSecrets is not looked at.
GetSecretNoCache(M, mount, name, resp) == fetchSecret(M, mount, name, resp)

\* Client.GetSecret: the cached secret of the name, or the secret the store
\* serves, which is cached under the name; a failed request panics.
GetSecret(M, mount, name, resp) ==
    IF name \in DOMAIN M.cachedSecrets THEN [M EXCEPT !.ret = M.cachedSecrets[name]]
    ELSE fetchSecret(M, mount, name, resp)

setSecret(M, ok) ==
    IF M.panicked # "" THEN M
    ELSE IF Len(M.ui.FilteredKeys) > 0
    THEN LET i == M.ui.ViewStart + M.ui.Cursor
         IN  IF \/ M.ui.CurrentMount < 0 \/ M.ui.CurrentMount >= Len(M.ui.Mounts)
                \/ i < 0 \/ i >= Len(M.ui.FilteredKeys)
             THEN [M EXCEPT !.panicked = "index out of range"]
             ELSE LET mount == M.ui.Mounts[M.ui.CurrentMount + 1]
                      name == M.ui.FilteredKeys[i + 1]
                      G == GetSecret(M, mount, name, Answer(mount, name, ok))
                  IN  IF G.panicked # "" THEN G ELSE [G EXCEPT !.ui.Secret = G.ret]
    ELSE [M EXCEPT !.ui.Secret = ZeroSecret]

SCROLL_OFF == 4

nKeysToShow(windowHeight) == windowHeight - 2

\* Mutant of clampCursor: the cursor is kept as it is.
clampCursorKeeps(Cursor, n) == Cursor

\* The cursor newKeysView leaves for n filtered keys.
clampCursor(Cursor, n) == IF n = 0 THEN 0 ELSE Min(Cursor, n - 1)

\* Mutant of newKeysView: the start of the view is kept.
newKeysViewKeepsStart(M, ok) ==
    IF M.panicked # "" THEN M
    ELSE LET filtered == FilteredKeysOf(M.ui.Prompt, M.ui.Keys)
         IN  setSecret([M EXCEPT !.ui.FilteredKeys = filtered,
                                 !.ui.ViewEnd = Min(nKeysToShow(M.ui.Height), Len(filtered)),
                                 !.ui.Cursor = clampCursor(@, Len(filtered))],
                       ok)

newKeysView(M, ok) ==
    IF M.panicked # "" THEN M
    ELSE LET filtered == FilteredKeysOf(M.ui.Prompt, M.ui.Keys)
         IN  setSecret([M EXCEPT !.ui.FilteredKeys = filtered,
                                 !.ui.ViewStart = 0,
                                 !.ui.ViewEnd = Min(nKeysToShow(M.ui.Height), Len(filtered)),
                                 !.ui.Cursor = clampCursor(@, Len(filtered))],
                       ok)

\* Mutant of moveUp: the view is scrolled only from the last row of the
\* viewport, no margin is kept.
moveUpNoMargin(M, ok) ==
    LET u == M.ui
    IN  setSecret(
            IF u.ViewStart + u.Cursor + 1 < Len(u.FilteredKeys)
            THEN IF /\ u.Cursor + 1 >= nKeysToShow(u.Height)
                    /\ u.ViewEnd < Len(u.FilteredKeys)
                 THEN [M EXCEPT !.ui.ViewStart = @ + 1, !.ui.ViewEnd = @ + 1]
                 ELSE [M EXCEPT !.ui.Cursor = @ + 1]
            ELSE M,
            ok)

moveUp(M, ok) ==
    LET u == M.ui
    IN  setSecret(
            IF u.ViewStart + u.Cursor + 1 < Len(u.FilteredKeys)
            THEN IF /\ u.Cursor + 1 >= nKeysToShow(u.Height) - SCROLL_OFF
                    /\ u.ViewEnd < Len(u.FilteredKeys)
                 THEN [M EXCEPT !.ui.ViewStart = @ + 1, !.ui.ViewEnd = @ + 1]
                 ELSE [M EXCEPT !.ui.Cursor = @ + 1]
            ELSE M,
            ok)

\* Mutant of moveDown: the view is never scrolled back, the cursor moves.
moveDownCursorOnly(M, ok) ==
    setSecret(IF M.ui.Cursor > 0 THEN [M EXCEPT !.ui.Cursor = @ - 1] ELSE M, ok)

moveDown(M, ok) ==
    LET u == M.ui
    IN  setSecret(
            IF u.Cursor > 0
            THEN IF u.Cursor - 1 < SCROLL_OFF /\ u.ViewStart > 0
                 THEN [M EXCEPT !.ui.ViewStart = @ - 1, !.ui.ViewEnd = @ - 1]
                 ELSE [M EXCEPT !.ui.Cursor = @ - 1]
            ELSE M,
            ok)

\* The end of nextMount and previousMount: the keys of the current mount are
\* fetched, the prompt is emptied and the view is built anew.
loadMount(M, ok, order) ==
    LET G == GetKeys(M, M.ui.Mounts[M.ui.CurrentMount + 1], order)
    IN  newKeysView([G EXCEPT !.ui.Keys = G.ret, !.ui.Prompt = <<>>], ok)

nextMount(M, ok, order) ==
    IF Len(M.ui.Mounts) < 2 THEN M
    ELSE loadMount([M EXCEPT !.ui.CurrentMount =
                        IF @ = 0 THEN Len(M.ui.Mounts) - 1 ELSE @ - 1],
                   ok, order)

previousMount(M, ok, order) ==
    IF Len(M.ui.Mounts) < 2 THEN M
    ELSE loadMount([M EXCEPT !.ui.CurrentMount = (@ + 1) % Len(M.ui.Mounts)],
                   ok, order)

\* Mutant of resize: the cursor and the start of the view are kept.
resizeKeeps(M, height) ==
    [M EXCEPT !.ui.Height = height,
              !.ui.ViewEnd = Min(nKeysToShow(height), Len(M.ui.FilteredKeys))]

\* The handler of EventResize.
resize(M, height) ==
    LET viewEnd == Min(nKeysToShow(height), Len(M.ui.FilteredKeys))
        outside == M.ui.ViewStart + M.ui.Cursor >= viewEnd
    IN  [M EXCEPT !.ui.Height = height,
                  !.ui.ViewEnd = viewEnd,
                  !.ui.Cursor = IF outside THEN 0 ELSE @,
                  !.ui.ViewStart = IF outside THEN 0 ELSE @]

\* Redraw: drawKeys slices FilteredKeys[ViewStart:ViewEnd], which panics when the
\* bounds are not in order.
Redraw(M) ==
    IF M.panicked # "" THEN M
    ELSE IF ~(0 <= M.ui.ViewStart /\ M.ui.ViewStart <= M.ui.ViewEnd
              /\ M.ui.ViewEnd <= Len(M.ui.FilteredKeys))
    THEN [M EXCEPT !.panicked = "slice bounds out of range"]
    ELSE M

\* json.MarshalIndent(ui.Secret, "", "  ").
MarshalIndent(secret) == <<"{", "url", secret.Url, "data", secret.Data, "}">>

\* Mutant of confirmResult: the secret is marshalled whether it is zero or not.
confirmResultAlways(secret) == MarshalIndent(secret)

\* What KeyEnter leaves in ui.Result.
confirmResult(secret) == IF secret # ZeroSecret THEN MarshalIndent(secret) ELSE <<>>

\* Mutant of quit: the recovered panic or the result is printed before the
\* screen is released.
quitPrintsFirst(errorMsg, Result) ==
    (IF errorMsg # "" THEN <<"stderr">>
     ELSE IF Len(Result) # 0 THEN <<"stdout">> ELSE <<>>) \o <<"Screen.Fini">>

\* The deferred quit, as what it does in order: a panic is recovered, the
\* screen is released, then the recovered panic is printed to standard error
\* or else ui.Result, if it is not empty, to standard output.
quit(errorMsg, Result) ==
    <<"Screen.Fini">> \o (IF errorMsg # "" THEN <<"stderr">>
                          ELSE IF Len(Result) # 0 THEN <<"stdout">> ELSE <<>>)

\* The exit status of the process: main returns (also after quit has recovered
\* a panic) with 0, fatal calls os.Exit(1), a panic that nothing recovers ends
\* the process with 2.
ExitStatus(how) ==
    CASE how \in {"confirm", "cancel", "panic"} -> 0
      [] how = "fatal" -> 1
      [] how = "crash" -> 2

\* The machine a handler (and the Redraw after it) has left becomes the state;
\* a panic ends main: quit recovers it and prints it to standard error.
Leave(Left) ==
    \E M \in {Left} :
        /\ ui' = M.ui
        /\ cachedSecrets' = M.cachedSecrets
        /\ getCalls' = M.getCalls
        /\ cachedKeys' = M.cachedKeys
        /\ walks' = M.walks
        /\ IF M.panicked # ""
           THEN /\ upc' = "halted"
                /\ exit' = [how |-> "panic", msg |-> M.panicked,
                            status |-> ExitStatus("panic"),
                            quit |-> quit(M.panicked, M.ui.Result)]
           ELSE upc' = "browsing" /\ UNCHANGED exit
        /\ UNCHANGED <<stdout, secrets, status, cpc, task, closed, keys,
                       result, prev, runs, errLogged, matchVars, rankVars, getVars>>

\* main returns: quit prints ui.Result if there is one.
Return(how, Result) ==
    /\ upc' = "halted"
    /\ exit' = [how |-> how, msg |-> "", status |-> ExitStatus(how),
                quit |-> quit("", Result)]
    /\ ui' = [ui EXCEPT !.Result = Result]
    /\ stdout' = IF "stdout" \in Range(quit("", Result)) THEN Result ELSE <<>>
    /\ UNCHANGED <<cachedSecrets, getCalls, walks, walkVars, matchVars, rankVars, getVars>>

\* The process ends before the screen is initialized: quit is not deferred yet.
Abort(how, msg) ==
    /\ upc' = "halted"
    /\ exit' = [how |-> how, msg |-> msg, status |-> ExitStatus(how), quit |-> <<>>]
    /\ UNCHANGED <<ui, cachedSecrets, getCalls, walks, stdout, walkVars,
                   matchVars, rankVars, getVars>>

\* mustGetEnv("VAULT_ADDR") and mustGetEnv("VAULT_TOKEN"): a variable that is
\* not set is fatal; slog still writes to standard error here.
MustGetEnv ==
    /\ upc = "env"
    /\ \E found \in BOOLEAN :
         IF found
         THEN /\ upc' = "mounts"
              /\ UNCHANGED <<ui, cachedSecrets, getCalls, walks, exit, stdout,
                             walkVars, matchVars, rankVars, getVars>>
         ELSE Abort("fatal", "Environment variable must be set")

\* What may happen from GetMounts to newUi.
SetupOutcomes == {"ok", "GetMounts panics", "log file fails", "screen fails"}

\* main from GetMounts to newUi.  GetMounts panics on a failed request, and
\* nothing recovers it.  The log file is created with DEBUG set, a failure is
\* fatal and reported on standard error; with DEBUG not set the log output is
\* discarded, and with it what slog writes from then on: a screen that cannot
\* be made is fatal without a message on standard error.
Setup ==
    /\ upc = "mounts"
    /\ \E outcome \in SetupOutcomes, mounts \in MountLists, height \in Heights :
         CASE outcome = "ok" ->
                /\ ui' = newUi(mounts, height)
                /\ upc' = "start"
                /\ UNCHANGED <<cachedSecrets, getCalls, walks, exit, stdout,
                               walkVars, matchVars, rankVars, getVars>>
           [] outcome = "GetMounts panics" ->
                Abort("crash", "panic: Failed to perform request")
           [] outcome = "log file fails" ->
                Abort("fatal", "Failed to create log file")
           [] outcome = "screen fails" ->
                Abort("fatal", "")

\* main up to the event loop: the keys of Mounts[0] are fetched and shown.
Start ==
    /\ upc = "start"
    /\ \E ok \in BOOLEAN, order \in WalkOrders :
         Leave(IF Len(ui.Mounts) = 0
               THEN [Machine EXCEPT !.panicked = "index out of range"]
               ELSE LET G == GetKeys(Machine, ui.Mounts[ui.CurrentMount + 1], order)
                    IN  Redraw(newKeysView([G EXCEPT !.ui.Keys = G.ret], ok)))

EventResize ==
    /\ upc = "browsing"
    /\ \E height \in Heights : Leave(Redraw(resize(Machine, height)))

KeyEscape ==
    /\ upc = "browsing"
    /\ Return("cancel", ui.Result)

KeyEnter ==
    /\ upc = "browsing"
    /\ Return("confirm", confirmResult(ui.Secret))

KeyBackspace ==
    /\ upc = "browsing"
    /\ \E ok \in BOOLEAN :
         Leave(Redraw(IF Len(ui.Prompt) > 0
                      THEN newKeysView([Machine EXCEPT
                               !.ui.Prompt = dropLastByte(@)], ok)
                      ELSE Machine))

KeyCtrlU ==
    /\ upc = "browsing"
    /\ \E ok \in BOOLEAN :
         Leave(Redraw(newKeysView([Machine EXCEPT !.ui.Prompt = <<>>], ok)))

\* The characters main's KeyRune case treats apart.
CommandRunes == {"?", ",", ";"}

\* Mutant of keyRune: "b" shows or hides the help as "?" does.
keyRuneBIsHelp(M, r, ok, order) ==
    CASE r \in {"?", "b"} -> [M EXCEPT !.ui.ShowHelp = ~@]
      [] r = "," -> nextMount(M, ok, order)
      [] r = ";" -> previousMount(M, ok, order)
      [] OTHER -> newKeysView([M EXCEPT !.ui.Prompt = Append(@, r)], ok)

\* The KeyRune case of the event loop: "?" shows or hides the help, "," and
\* ";" change the mount, any other character is added to the prompt.
keyRune(M, r, ok, order) ==
    CASE r = "?" -> [M EXCEPT !.ui.ShowHelp = ~@]
      [] r = "," -> nextMount(M, ok, order)
      [] r = ";" -> previousMount(M, ok, order)
      [] OTHER -> newKeysView([M EXCEPT !.ui.Prompt = Append(@, r)], ok)

KeyRune ==
    /\ upc = "browsing"
    /\ \E r \in TypedRunes, ok \in BOOLEAN, order \in WalkOrders :
         /\ r \in CommandRunes \/ Len(ui.Prompt) < MaxUiPrompt
         /\ r \in {",", ";"} \/ order = "lexicographic"   \* no walk otherwise
         /\ r # "?" \/ ok                                 \* no Get for "?"
         /\ Leave(Redraw(keyRune(Machine, r, ok, order)))

KeyLeft ==
    /\ upc = "browsing"
    /\ \E ok \in BOOLEAN, order \in WalkOrders :
         Leave(Redraw(nextMount(Machine, ok, order)))

KeyRight ==
    /\ upc = "browsing"
    /\ \E ok \in BOOLEAN, order \in WalkOrders :
         Leave(Redraw(previousMount(Machine, ok, order)))

KeyUp ==
    /\ upc = "browsing"
    /\ \E ok \in BOOLEAN : Leave(Redraw(moveUp(Machine, ok)))

KeyDown ==
    /\ upc = "browsing"
    /\ \E ok \in BOOLEAN : Leave(Redraw(moveDown(Machine, ok)))

InitUi ==
    /\ secrets = {}
    /\ status = <<>>
    /\ cachedKeys = <<>>
    /\ cpc = "setup"
    /\ task = <<>>
    /\ closed = FALSE
    /\ keys = <<>>
    /\ result = <<>>
    /\ prev = {}
    /\ runs = "none"
    /\ errLogged = {}
    /\ mPrompt = <<>>
    /\ mKey = <<>>
    /\ mOut = <<>>
    /\ mpc = "call"
    /\ rPrompt = <<>>
    /\ rKeys = <<>>
    /\ rOut = <<>>
    /\ rpc = "call"
    /\ UiNotStarted

NextUi ==
    \/ MustGetEnv
    \/ Setup
    \/ Start
    \/ EventResize
    \/ KeyEscape
    \/ KeyEnter
    \/ KeyBackspace
    \/ KeyCtrlU
    \/ KeyRune
    \/ KeyLeft
    \/ KeyRight
    \/ KeyUp
    \/ KeyDown

SpecUi == InitUi /\ [][NextUi]_vars

(***************************************************************************)
(* internal/vault: Client.GetSecret on its own.  One call is made, for a   *)
(* name of a mount, on a cache that is empty or holds one secret, and the  *)
(* store answers in any of the ways of Responses.                          *)
(***************************************************************************)
GetMountNames == {"kv", "secret"}

GetNames == {<<"/", "a">>, <<"/", "c">>}

\* A secret as an earlier call of GetSecret has cached it.
CachedSecret(mount, name) ==
    [Url |-> [mount |-> mount, name |-> name],
     Data |-> [Data |-> StoreData(mount, name), Metadata |-> <<"created_time">>]]

InitGet ==
    /\ secrets = {}
    /\ status = <<>>
    /\ cachedKeys = <<>>
    /\ cpc = "setup"
    /\ task = <<>>
    /\ closed = FALSE
    /\ keys = <<>>
    /\ result = <<>>
    /\ prev = {}
    /\ runs = "none"
    /\ errLogged = {}
    /\ mPrompt = <<>>
    /\ mKey = <<>>
    /\ mOut = <<>>
    /\ mpc = "call"
    /\ rPrompt = <<>>
    /\ rKeys = <<>>
    /\ rOut = <<>>
    /\ rpc = "call"
    /\ ui = newUi(<<>>, 0)
    /\ cachedSecrets \in {<<>>} \cup {(n :> CachedSecret(m, n)) :
                                        m \in GetMountNames, n \in GetNames}
    /\ getCalls = <<>>
    /\ walks = <<>>
    /\ upc = "env"
    /\ exit = Running
    /\ stdout = <<>>
    /\ gMount \in GetMountNames
    /\ gName \in GetNames
    /\ gResp \in Responses(gMount, gName)
    /\ gOut = <<>>
    /\ gpc = "call"

CallGetSecret ==
    /\ gpc = "call"
    /\ \E G \in {GetSecret(Machine, gMount, gName, gResp)} :
         /\ gOut' = [ret |-> G.ret, panicked |-> G.panicked]
         /\ cachedSecrets' = G.cachedSecrets
         /\ getCalls' = G.getCalls
    /\ gpc' = "done"
    /\ UNCHANGED <<gMount, gName, gResp, ui, walks, upc, exit, stdout,
                   walkVars, matchVars, rankVars>>

NextGet == CallGetSecret

SpecGet == InitGet /\ [][NextGet]_vars

(***************************************************************************)
(* The interactive session: the view, the selected secret, the caches and  *)
(* how the session ends.                                                   *)
(***************************************************************************)
Browsing == upc = "browsing"

\* The index of the selected key in FilteredKeys, counted from 0.
Selected == ui.ViewStart + ui.Cursor

viewportSize == nKeysToShow(ui.Height)

\* C14: in the event loop, whenever filtered is not empty,
\* 0 <= cursor < min(viewportSize, len(filtered) - viewStart), and so
\* viewStart + cursor is an index of filtered.
C14_ViewportInvariant ==
    (Browsing /\ Len(ui.FilteredKeys) > 0) =>
        /\ 0 <= ui.Cursor
        /\ ui.Cursor < Min(viewportSize, Len(ui.FilteredKeys) - ui.ViewStart)
        /\ Selected \in 0..(Len(ui.FilteredKeys) - 1)

\* C14, amended: the same whenever the viewport has a row (a terminal of three
\* rows or more); with viewportSize = 0 no cursor is below viewportSize.
C14_ViewportInvariantWithRows ==
    (Browsing /\ Len(ui.FilteredKeys) > 0 /\ viewportSize >= 1) =>
        /\ 0 <= ui.Cursor
        /\ ui.Cursor < Min(viewportSize, Len(ui.FilteredKeys) - ui.ViewStart)
        /\ Selected \in 0..(Len(ui.FilteredKeys) - 1)

\* The view is scrolled and the cursor is off the first row.
C14_Witness ==
    /\ Browsing
    /\ ui.ViewStart > 0
    /\ ui.Cursor > 0
    /\ Len(ui.FilteredKeys) > viewportSize

\* C15: in the event loop, whenever filtered is not empty, the secret held in
\* ui.Secret (the one drawn, and printed on Enter) is the secret of the key at
\* viewStart + cursor.
C15_SecretIsOfSelectedKey ==
    (Browsing /\ Len(ui.FilteredKeys) > 0 /\ Selected \in 0..(Len(ui.FilteredKeys) - 1)) =>
        /\ ui.Secret # ZeroSecret
        /\ ui.Secret.Url.name = ui.FilteredKeys[Selected + 1]

\* C16: whenever filtered is empty the cursor is 0 and no secret is selected:
\* ui.Secret is the zero value and Enter has printed nothing.
C16_EmptyMeansNothingSelected ==
    Len(ui.FilteredKeys) = 0 =>
        /\ ui.Cursor = 0
        /\ ui.Secret = ZeroSecret
        /\ stdout = <<>>

C16_Witness ==
    /\ upc = "halted" /\ exit.how = "confirm"
    /\ Len(ui.Keys) > 0
    /\ Len(ui.FilteredKeys) = 0
    /\ Cardinality(DOMAIN cachedSecrets) >= 2

\* C17: the store serves a secret at most once, a cached secret is never dropped
\* or replaced, and the secret held is the one cached for its name: every
\* later GetSecret of a name returns what the first one returned.
C17_CacheServesFirstFetch ==
    /\ [](/\ \A p \in DOMAIN getCalls : getCalls[p] <= 1
          /\ ui.Secret # ZeroSecret =>
               /\ ui.Secret.Url.name \in DOMAIN cachedSecrets
               /\ cachedSecrets[ui.Secret.Url.name] = ui.Secret)
    /\ [][\A n \in DOMAIN cachedSecrets :
            n \in DOMAIN cachedSecrets' /\ cachedSecrets'[n] = cachedSecrets[n]]_vars

\* A key is selected again after others were: its secret is in the cache, the
\* store has served it once.
C17_Witness ==
    /\ Browsing
    /\ Len(ui.FilteredKeys) > 1
    /\ Selected = 0
    /\ Cardinality(DOMAIN cachedSecrets) >= 3
    /\ getCalls[<<ui.Secret.Url.mount, ui.Secret.Url.name>>] = 1

\* C18: a Get that fails for the key that becomes selected does not end the
\* session.
C18_GetFailureNotFatal ==
    ~(upc = "halted" /\ exit.how = "panic" /\ exit.msg \in GetPanics)

\* C19: a result is printed iff the session halted on Enter while a secret was
\* selected, and it is that secret as JSON; Enter with nothing selected and
\* Escape halt without a result; no event is handled after the halt.
C19_ResultIffConfirmWithSecret ==
    /\ []((stdout # <<>>) <=> (upc = "halted" /\ exit.how = "confirm" /\ ui.Secret # ZeroSecret))
    /\ [](stdout # <<>> => stdout = MarshalIndent(ui.Secret))
    /\ [][upc # "halted"]_vars

C19_Witness ==
    /\ upc = "halted" /\ exit.how = "confirm"
    /\ stdout # <<>>
    /\ ui.Prompt # <<>>

\* C20: every change of the mount walks the new mount again, also a mount that
\* was selected before, and allPaths becomes the result of that walk.
C20_EverySwitchWalks ==
    [][ui'.CurrentMount # ui.CurrentMount =>
          LET mount == ui'.Mounts[ui'.CurrentMount + 1]
          IN  /\ mount \in DOMAIN walks'
              /\ walks'[mount] = (IF mount \in DOMAIN walks THEN walks[mount] ELSE 0) + 1]_vars

\* C21: the process that ends on a missing environment variable or on a store
\* failure that ends the session has printed a message to standard error and
\* exits with status 1; on confirm and on cancel it exits with status 0.
C21_ErrorsExitOne ==
    upc = "halted" =>
        /\ exit.how \in {"confirm", "cancel"} => exit.status = 0
        /\ (\/ exit.how = "fatal" /\ exit.msg = "Environment variable must be set"
            \/ exit.how = "panic" /\ exit.msg \in GetPanics)
           => exit.status = 1 /\ exit.msg # ""

(***************************************************************************)
(* Client.GetSecret: what a call returns and caches.                       *)
(***************************************************************************)
\* The call of CallGetSecret has to ask the store and the store's answer makes
\* it fail.
GetFails ==
    \/ gResp.DoFails
    \/ gResp.Malformed
    \/ gResp.StatusCode # 200 /\ gResp.Data = <<>> /\ gResp.Metadata = <<>>

\* C22: a call of GetSecret that asks the store fails iff the request or the
\* decoding fails or the status is not 200 while both data and metadata are
\* absent; a call that fails leaves the cache as it was; any other answer, a
\* 404 with metadata only among them, is returned as a secret with the data and
\* metadata of the body and is cached under the name, next to what was cached.
C22_GetOutcomeRule ==
    [][(gpc = "call" /\ gpc' = "done" /\ gName \notin DOMAIN cachedSecrets) =>
          /\ (gOut'.panicked # "") <=> GetFails
          /\ GetFails => cachedSecrets' = cachedSecrets
          /\ ~GetFails =>
                /\ gOut'.ret.Data = [Data |-> gResp.Data, Metadata |-> gResp.Metadata]
                /\ DOMAIN cachedSecrets' = DOMAIN cachedSecrets \cup {gName}
                /\ cachedSecrets'[gName] = gOut'.ret
                /\ \A n \in DOMAIN cachedSecrets : cachedSecrets'[n] = cachedSecrets[n]]_vars

\* A 404 whose body holds metadata and no data was returned and cached, next to
\* the secret of another name.
C22_Witness ==
    /\ gpc = "done"
    /\ ~gResp.DoFails /\ ~gResp.Malformed
    /\ gResp.StatusCode = 404
    /\ gResp.Data = <<>> /\ gResp.Metadata # <<>>
    /\ gOut.panicked = ""
    /\ gOut.ret.Data.Metadata = gResp.Metadata
    /\ gName \in DOMAIN cachedSecrets /\ cachedSecrets[gName] = gOut.ret
    /\ Cardinality(DOMAIN cachedSecrets) = 2

(***************************************************************************)
(* The interactive session: what the handlers of the event loop do to the  *)
(* view.                                                                   *)
(***************************************************************************)
\* The secret held is the one the cache holds for the selected key, none if no
\* key is left: setSecret has run for the selection of the next state.
Resolved ==
    IF Len(ui'.FilteredKeys) = 0 THEN ui'.Secret = ZeroSecret
    ELSE LET i == ui'.ViewStart + ui'.Cursor
         IN  /\ i \in 0..(Len(ui'.FilteredKeys) - 1)
             /\ ui'.FilteredKeys[i + 1] \in DOMAIN cachedSecrets'
             /\ ui'.Secret = cachedSecrets'[ui'.FilteredKeys[i + 1]]
             /\ ui'.Secret.Url.name = ui'.FilteredKeys[i + 1]

\* A step of the event loop that edits the prompt and stays in the loop: the
\* prompt changes on the same mount (a character is appended, the last one is
\* removed, the prompt is cleared), or KeyCtrlU clears a prompt that is empty.
PromptEdit ==
    /\ upc = "browsing" /\ upc' = "browsing"
    /\ ui'.CurrentMount = ui.CurrentMount
    /\ \/ ui'.Prompt # ui.Prompt
       \/ /\ ui.Prompt = <<>> /\ ui'.Prompt = <<>>
          /\ ui'.Height = ui.Height /\ ui'.ShowHelp = ui.ShowHelp
          /\ KeyCtrlU

\* C23: every prompt edit leaves filtered = the ranking of allPaths under the
\* new prompt, viewStart = 0, cursor = min(old cursor, len(filtered) - 1), or 0
\* if filtered is empty, and the secret resolved for the key at
\* viewStart + cursor.
C23_PromptEditResetsView ==
    [][PromptEdit =>
          /\ ui'.Keys = ui.Keys
          /\ ui'.FilteredKeys = FilteredKeysOf(ui'.Prompt, ui.Keys)
          /\ ui'.ViewStart = 0
          /\ ui'.Cursor = IF Len(ui'.FilteredKeys) = 0 THEN 0
                          ELSE Min(ui.Cursor, Len(ui'.FilteredKeys) - 1)
          /\ Resolved]_vars

\* The prompt was edited while the view was scrolled and the cursor was beyond
\* the keys that are left: the view is back at the start, the cursor on the
\* last key, whose secret the store has just served.
C23_Witness ==
    /\ Browsing
    /\ ui.Prompt # <<>>
    /\ Len(ui.FilteredKeys) \in 2..(Len(ui.Keys) - 1)
    /\ ui.ViewStart = 0
    /\ ui.Cursor = Len(ui.FilteredKeys) - 1
    /\ ui.Secret.Url.name = ui.FilteredKeys[Len(ui.FilteredKeys)]

\* The view is left as it is: nothing of the Ui changes but, possibly, the
\* secret held, which every move resolves again.
ViewKept == ui' = [ui EXCEPT !.Secret = ui'.Secret]

\* A step of the event loop that handles Up, Ctrl-K or Ctrl-P and stays in the
\* loop.
MoveUpStep ==
    /\ upc = "browsing" /\ upc' = "browsing"
    /\ ui'.Prompt = ui.Prompt /\ ui'.Height = ui.Height
    /\ ui'.CurrentMount = ui.CurrentMount /\ ui'.ShowHelp = ui.ShowHelp
    /\ KeyUp

\* C24: move-up changes nothing when the last filtered entry is selected;
\* otherwise viewStart + cursor grows by one: viewStart grows by one, cursor
\* unchanged, when cursor + 1 > viewportSize - scrollMargin - 1 and filtered
\* has entries beyond the window (the viewportSize rows starting at
\* viewStart), and cursor grows by one, viewStart unchanged, in every other
\* case.
C24_MoveUp ==
    [][(MoveUpStep /\ Len(ui.FilteredKeys) > 0) =>
          IF Selected = Len(ui.FilteredKeys) - 1
          THEN ViewKept
          ELSE IF /\ ui.Cursor + 1 > viewportSize - SCROLL_OFF - 1
                  /\ ui.ViewStart + viewportSize < Len(ui.FilteredKeys)
               THEN ui'.ViewStart = ui.ViewStart + 1 /\ ui'.Cursor = ui.Cursor
               ELSE ui'.Cursor = ui.Cursor + 1 /\ ui'.ViewStart = ui.ViewStart]_vars

\* A step of the event loop that handles Down, Ctrl-J or Ctrl-N and stays in
\* the loop.
MoveDownStep ==
    /\ upc = "browsing" /\ upc' = "browsing"
    /\ ui'.Prompt = ui.Prompt /\ ui'.Height = ui.Height
    /\ ui'.CurrentMount = ui.CurrentMount /\ ui'.ShowHelp = ui.ShowHelp
    /\ KeyDown

\* C25: move-down leaves the view as it is when cursor = 0; otherwise, if
\* cursor - 1 < scrollMargin and viewStart > 0, viewStart falls by one and
\* cursor is unchanged, else cursor falls by one and viewStart is unchanged.
C25_MoveDown ==
    [][MoveDownStep =>
          /\ ui'.Keys = ui.Keys /\ ui'.FilteredKeys = ui.FilteredKeys
          /\ IF ui.Cursor = 0
             THEN ViewKept
             ELSE IF ui.Cursor - 1 < SCROLL_OFF /\ ui.ViewStart > 0
                  THEN ui'.ViewStart = ui.ViewStart - 1 /\ ui'.Cursor = ui.Cursor
                  ELSE ui'.Cursor = ui.Cursor - 1 /\ ui'.ViewStart = ui.ViewStart]_vars

\* The view has been scrolled back to the start with the cursor off the first
\* row: keys lie beyond the window, which a cursor that moved up would not
\* have left there.
C25_Witness ==
    /\ Browsing
    /\ ui.Prompt = <<>>
    /\ ui.Height = 8
    /\ ui.ViewStart = 0
    /\ ui.Cursor = 3
    /\ ui.ViewEnd < Len(ui.FilteredKeys)
    /\ ui.Secret.Url.name = ui.FilteredKeys[4]

\* A step of the event loop that handles a resize and stays in the loop.
ResizeStep ==
    /\ upc = "browsing" /\ upc' = "browsing"
    /\ ui'.Prompt = ui.Prompt /\ ui'.CurrentMount = ui.CurrentMount
    /\ ui'.ShowHelp = ui.ShowHelp
    /\ EventResize

\* C26: a resize leaves viewStart and cursor as they are when the selection is
\* inside the new window, the viewportSize rows from viewStart on, and resets
\* both to 0 when it is outside.
C26_ResizeKeepsVisibleSelection ==
    [][(ResizeStep /\ Len(ui.FilteredKeys) > 0) =>
          IF ui.Cursor < nKeysToShow(ui'.Height)
          THEN ui'.ViewStart = ui.ViewStart /\ ui'.Cursor = ui.Cursor
          ELSE ui'.ViewStart = 0 /\ ui'.Cursor = 0]_vars

\* A step of the event loop that changes the mount and stays in the loop.
MountSwitch ==
    /\ upc = "browsing" /\ upc' = "browsing"
    /\ ui'.CurrentMount # ui.CurrentMount

\* C27: after a change of the mount the prompt is empty, allPaths holds the
\* paths of the new mount, filtered holds every path of allPaths, viewStart is
\* 0, cursor is min(old cursor, len(filtered) - 1), or 0 if filtered is empty,
\* and the secret held is the one the new mount keeps at filtered[cursor].
C27_SwitchResetsView ==
    [][MountSwitch =>
          LET mount == ui'.Mounts[ui'.CurrentMount + 1]
              n == Len(ui'.FilteredKeys)
          IN  /\ ui'.Prompt = <<>>
              /\ Range(ui'.Keys) = Range(StorePaths(mount))
              /\ Len(ui'.Keys) = Len(StorePaths(mount))
              /\ Range(ui'.FilteredKeys) = Range(ui'.Keys)
              /\ n = Len(ui'.Keys)
              /\ ui'.ViewStart = 0
              /\ ui'.Cursor = IF n = 0 THEN 0 ELSE Min(ui.Cursor, n - 1)
              /\ n > 0 =>
                    LET name == ui'.FilteredKeys[ui'.Cursor + 1]
                    IN  /\ ui'.Secret.Url = [mount |-> mount, name |-> name]
                        /\ ui'.Secret.Data.Data = Answer(mount, name, TRUE).Data]_vars

(***************************************************************************)
(* The interactive session: the release of the terminal.                   *)
(***************************************************************************)
\* The steps of quit that release the screen.
FiniAt(q) == {i \in 1..Len(q) : q[i] = "Screen.Fini"}

\* The session has ended with the screen initialized: on Enter, on Escape or
\* on a panic raised in main's goroutine after newUi.
SessionEnded == upc = "halted" /\ exit.how \in {"confirm", "cancel", "panic"}

\* C28: while the session runs the screen is not released and nothing is
\* printed; once it has ended, however it did, the screen has been released
\* exactly once, and the result or the message of the failure was printed
\* after the release.
C28_TerminalReleasedOnce ==
    /\ upc \in {"start", "browsing"} =>
          exit.quit = <<>> /\ stdout = <<>> /\ exit.msg = ""
    /\ SessionEnded =>
          /\ Cardinality(FiniAt(exit.quit)) = 1
          /\ \A i \in 1..Len(exit.quit) :
                exit.quit[i] \in {"stdout", "stderr"} =>
                    \E j \in FiniAt(exit.quit) : j < i
          /\ stdout # <<>> => "stdout" \in Range(exit.quit)
          /\ exit.msg # "" => "stderr" \in Range(exit.quit)

\* The session ended on a Get that failed while an event was handled: the
\* screen was released, then the failure was printed.
C28_Witness ==
    /\ SessionEnded
    /\ exit.how = "panic" /\ exit.msg \in GetPanics
    /\ Cardinality(DOMAIN cachedSecrets) >= 1
    /\ exit.quit = <<"Screen.Fini", "stderr">>

(***************************************************************************)
(* The walk: the channel recv.                                             *)
(***************************************************************************)
\* C29: the send of a leaf's path completes without the collector receiving
\* it: the step that ends the send leaves the keys collected as they are.
C29_EmitNeverWaits ==
    [][\A n \in DOMAIN task \cap DOMAIN task' :
          (task[n].pc = "send" /\ task'[n].pc = "done") => keys' = keys]_vars

\* C29, amended: recv is unbuffered: the send of a leaf's path completes in
\* the step in which the collector receives that path and appends it to the
\* keys collected, so the path of every leaf task that has finished has been
\* collected.
C29_EmitMeetsReceive ==
    /\ [](\A n \in DOMAIN task :
            (~task[n].isDir /\ task[n].pc = "done") => n \in Range(keys))
    /\ [][\A n \in DOMAIN task \cap DOMAIN task' :
            (task[n].pc = "send" /\ task'[n].pc = "done") => keys' = Append(keys, n)]_vars

\* A leaf task has finished, its path collected, while another still waits in
\* its send for the collector.
C29_Witness ==
    /\ cpc = "range"
    /\ \E n, m \in DOMAIN task :
         /\ ~task[n].isDir /\ task[n].pc = "done" /\ n \in Range(keys)
         /\ task[m].pc = "send"

(***************************************************************************)
(* The interactive session: the order of the keys shown.                   *)
(***************************************************************************)
\* The characters of the paths of the session, in the order of their bytes.
ByteOrder == <<"/", "a", "b", "c">>

Ord(c) == CHOOSE i \in 1..Len(ByteOrder) : ByteOrder[i] = c

\* s < t as Go compares strings.
RECURSIVE LexLess(_, _)
LexLess(s, t) ==
    IF Len(t) = 0 THEN FALSE
    ELSE IF Len(s) = 0 THEN TRUE
    ELSE IF s[1] = t[1] THEN LexLess(Tail(s), Tail(t))
    ELSE Ord(s[1]) < Ord(t[1])

\* C30: allPaths is in lexicographic order, and so are the entries of
\* filtered of equal score: what is shown for a store and a prompt does not
\* depend on the order in which the walk collected the keys.
C30_DisplayOrderDeterministic ==
    Browsing =>
        /\ \A i \in 1..(Len(ui.Keys) - 1) : LexLess(ui.Keys[i], ui.Keys[i + 1])
        /\ \A i \in 1..(Len(ui.FilteredKeys) - 1) :
              matchesPrompt(ui.Prompt, ui.FilteredKeys[i])[2]
                  = matchesPrompt(ui.Prompt, ui.FilteredKeys[i + 1])[2]
              => LexLess(ui.FilteredKeys[i], ui.FilteredKeys[i + 1])

(***************************************************************************)
(* The interactive session: the characters typed.                          *)
(***************************************************************************)
\* What the event loop leaves when r is typed in the state: the Ui after the
\* KeyRune case, whether the Get of the key selected then succeeds or not (a
\* walk made on the way returns the keys in their lexicographic order).
Typing(r) == {keyRune(Machine, r, ok, "lexicographic").ui : ok \in BOOLEAN}

\* The Ui u is the one of the state with r added to the prompt and ranked as
\* the filtered keys; the keys, the mount and the help are as they were.
EditedBy(r, u, ranked) ==
    /\ u.Prompt = Append(ui.Prompt, r)
    /\ u.Keys = ui.Keys
    /\ u.FilteredKeys = ranked
    /\ u.CurrentMount = ui.CurrentMount
    /\ u.ShowHelp = ui.ShowHelp

\* Typing r adds r to the prompt and ranks the keys of the mount under the new
\* prompt, and does nothing else.
EditsPrompt(r) ==
    LET ranked == FilteredKeysOf(Append(ui.Prompt, r), ui.Keys)
    IN  \A u \in Typing(r) : EditedBy(r, u, ranked)

\* The event loop waits for an event and the prompt has room for a character
\* within MaxUiPrompt.
AwaitsRune == Browsing /\ Len(ui.Prompt) < MaxUiPrompt

\* C31: in the event loop every character typed is added to the prompt and
\* the keys are ranked anew; no character is swallowed or does something else.
C31_EveryRuneEditsPrompt ==
    AwaitsRune => \A r \in TypedRunes : EditsPrompt(r)

\* C31, amended: in the event loop every character typed other than "?", ","
\* and ";" is added to the prompt and the keys are ranked anew; no such
\* character is swallowed or does something else.
C31_OtherRunesEditPrompt ==
    AwaitsRune => \A r \in TypedRunes \ CommandRunes : EditsPrompt(r)

\* Two characters were typed and are the prompt, keys match it, and the help
\* was hidden by a "?" that is not in the prompt.
C31_Witness ==
    /\ Browsing
    /\ ui.Prompt = <<"a", "b">>
    /\ Len(ui.FilteredKeys) > 0
    /\ ~ui.ShowHelp

(***************************************************************************)
(* The interactive session: the secret shown with several mounts.          *)
(***************************************************************************)
\* The mount whose keys are shown.
CurrentMountName == ui.Mounts[ui.CurrentMount + 1]

\* C32: in the event loop the secret held for the selection is the one the
\* mount shown stores at its path, never the secret fetched for the same path
\* of another mount.
C32_SecretIsOfCurrentMount ==
    (Browsing /\ Len(ui.FilteredKeys) > 0 /\ ui.Secret # ZeroSecret) =>
        /\ ui.Secret.Url.mount = CurrentMountName
        /\ ui.Secret.Data.Data
              = Answer(CurrentMountName, ui.Secret.Url.name, TRUE).Data

(***************************************************************************)
(* The interactive session: moving back down.                              *)
(***************************************************************************)
\* What the event loop leaves when Down, Ctrl-J or Ctrl-N is pressed in the
\* state, for each way the store may answer.
MovingDown == {moveDown(Machine, ok).ui : ok \in BOOLEAN}

\* C33: in the event loop, at every height of the terminal, move-down takes
\* the selected index viewStart + cursor down by exactly one whenever it is
\* greater than 0.
C33_MoveDownDecrements ==
    (Browsing /\ Len(ui.FilteredKeys) > 0 /\ Selected > 0) =>
        \A u \in MovingDown : u.ViewStart + u.Cursor = Selected - 1

(***************************************************************************)
(* The interactive session: the window drawn.                              *)
(***************************************************************************)
\* C34: in every state, at every height the terminal reports,
\* 0 <= ViewStart <= ViewEnd <= len(FilteredKeys), and so no drawing of the
\* list fails on the bounds of FilteredKeys[ViewStart:ViewEnd].
C34_SliceInBounds ==
    /\ 0 <= ui.ViewStart
    /\ ui.ViewStart <= ui.ViewEnd
    /\ ui.ViewEnd <= Len(ui.FilteredKeys)
    /\ exit.msg # "slice bounds out of range"

\* C35: in the event loop, whenever filtered is not empty, the window drawn is
\* the viewport from ViewStart on, ViewEnd = min(ViewStart + viewportSize,
\* len(filtered)), and the selected key is in it, ViewStart + Cursor < ViewEnd.
C35_WindowMatchesViewport ==
    (Browsing /\ Len(ui.FilteredKeys) > 0) =>
        /\ ui.ViewEnd = Min(ui.ViewStart + viewportSize, Len(ui.FilteredKeys))
        /\ Selected < ui.ViewEnd

(***************************************************************************)
(* The interactive session: the scroll margin.                             *)
(***************************************************************************)
\* What the event loop leaves when Up, Ctrl-K or Ctrl-P is pressed in the
\* state, for each way the store may answer.
MovingUp == {moveUp(Machine, ok).ui : ok \in BOOLEAN}

\* The last row the cursor may be on while keys lie beyond the window.
MarginRow == viewportSize - SCROLL_OFF - 1

\* C36: in the event loop, whenever keys lie beyond the end of the window
\* (ViewEnd < len(filtered)), cursor <= viewportSize - SCROLL_OFF - 1.
C36_ScrollMargin ==
    (Browsing /\ ui.ViewEnd < Len(ui.FilteredKeys)) => ui.Cursor <= MarginRow

\* C36, amended: the margin is kept by move-up: whenever keys lie beyond the
\* end of the window, a move-up that moves the cursor leaves it at
\* viewportSize - SCROLL_OFF - 1 or below, and from that row or a row beyond
\* it move-up leaves the cursor where it is.
C36_MoveUpKeepsMargin ==
    (Browsing /\ ui.ViewEnd < Len(ui.FilteredKeys)) =>
        \A u \in MovingUp :
            /\ u.Cursor \in {ui.Cursor, ui.Cursor + 1}
            /\ u.Cursor > ui.Cursor => u.Cursor <= MarginRow
            /\ ui.Cursor >= MarginRow => u.Cursor = ui.Cursor

\* On a viewport of six rows a move-up from the margin row has scrolled the
\* view and left the cursor on that row.
C36_Witness ==
    /\ Browsing
    /\ ui.Height = 8
    /\ ui.Prompt = <<>>
    /\ ui.ViewStart = 1
    /\ ui.Cursor = MarginRow
    /\ ui.ViewEnd = Len(ui.FilteredKeys)
    /\ ui.Secret.Url.name = ui.FilteredKeys[Selected + 1]

(***************************************************************************)
(* The prompt under edits: what is filtered as the prompt grows and        *)
(* shrinks.                                                                *)
(***************************************************************************)
\* C37: the keys filtered under a prompt with one more character are among
\* the keys filtered under the prompt, whatever the prompt, the character and
\* the keys; and so the removal of the last character of the prompt, which is
\* what Backspace is for, takes no key out of filtered.
C37_FilterMonotone ==
    /\ [](rpc = "edit" =>
            \A c \in PromptRunes :
                Range(FilteredKeysOf(Append(rPrompt, c), rKeys))
                    \subseteq Range(FilteredKeysOf(rPrompt, rKeys)))
    /\ [][Len(Bytes(rPrompt')) < Len(Bytes(rPrompt)) =>
            Range(rOut) \subseteq Range(rOut')]_vars

(***************************************************************************)
(* The interactive session: the mount shown.                               *)
(***************************************************************************)
\* C38: for every list of mounts GetMounts returns, from the fetch of the
\* first keys on and after every change of the mount, CurrentMount is an index
\* of Mounts, 0 <= CurrentMount < len(Mounts), and no use of
\* Mounts[CurrentMount] fails.
C38_CurrentMountValid ==
    /\ upc \in {"start", "browsing"} =>
          0 <= ui.CurrentMount /\ ui.CurrentMount < Len(ui.Mounts)
    /\ exit.msg # "index out of range"

====
